---- MODULE Spec2Model ----
(***************************************************************************)
(* photo-enhancer: the filter catalog (instaFilters.ts), the canvas        *)
(* wrappers (imageProcessing.ts), the pixel operators (filters.ts) and the *)
(* StyleSelector thumbnail effect.                                         *)
(*                                                                         *)
(* Two state machines share the module:                                    *)
(*   Spec        the StyleSelector useEffect(previewImage): runs of        *)
(*               generateThumbnails, their in-flight                       *)
(*               generateFilterThumbnail calls and the thumbnails state;   *)
(*   SpecFilter  one caller of the engine on a small RGBA buffer: a call   *)
(*               of applyFilterToImage / generateFilterThumbnail /         *)
(*               getFilterById, a filter function of the catalog run       *)
(*               statement by statement, a sequence of calls of the        *)
(*               operators of filters.ts, or an RGBtoHSV / HSVtoRGB pair.  *)
(***************************************************************************)
EXTENDS Integers, Sequences, FiniteSets, TLC

VARIABLES
    \* ---- StyleSelector ----
    previewImage,            \* the previewImage prop: 0 = undefined, k = k-th image
    runs,                    \* runs[k]: the effect closure created for image k
    thumbnails,              \* useState<Record<string,string>>: id -> data URL
    isGeneratingThumbnails,  \* useState(false)
    \* ---- applyFilterToImage / generateFilterThumbnail ----
    call,                    \* the entry point called and its arguments
    outcome,                 \* "none" before the call settles, then how it settled
    filter,                  \* what getFilterById returned: << >> or <<preset>>
    originalData,            \* pixels of the decoded image (ctx.getImageData)
    filteredData,            \* pixels after filter.apply, before the blend; for a
                             \* filter function or an operator, the pixels its
                             \* last statement or call received
    imageData,               \* pixels handed to ctx.putImageData
    \* ---- filter functions, filters.ts operators, colorUtils ----
    pc,                      \* statements of the running function executed so far
    hsv,                     \* const hsv = RGBtoHSV(...): << >> or <<h, s, v>>
    rgb,                     \* const rgb = HSVtoRGB(...): << >> or <<r, g, b>>
    \* ---- ImagePreview ----
    mounted,                 \* "no" before the component is mounted, "yes", "gone"
    props,                   \* the props originalImage, selectedStyle, strength
    processedImage,          \* useState<string>(originalImage)
    isProcessing,            \* useState(false)
    previousProcessedUrl,    \* useRef<string>(''): << >> or a URL
    effects,                 \* effects[r]: the closure of the r-th run of the effect
    revokedUrls              \* the URLs handed to URL.revokeObjectURL so far

vars == <<previewImage, runs, thumbnails, isGeneratingThumbnails,
          call, outcome, filter, originalData, filteredData, imageData,
          pc, hsv, rgb,
          mounted, props, processedImage, isProcessing, previousProcessedUrl,
          effects, revokedUrls>>

selectorVars == <<previewImage, runs, thumbnails, isGeneratingThumbnails>>
engineVars == <<pc, hsv, rgb>>
filterVars == <<call, outcome, filter, originalData, filteredData, imageData, engineVars>>
previewVars == <<mounted, props, processedImage, isProcessing, previousProcessedUrl,
                 effects, revokedUrls>>

(***************************************************************************)
(* Bounds of the model.                                                    *)
(***************************************************************************)
MaxImages == 2      \* preview images shown one after the other
NumStyles == 7      \* length of the prefix of imageStyles a run walks through
MaxSide == 2        \* largest width and height of a pixel buffer
MaxOps == 2         \* operator calls a caller makes on one buffer

(***************************************************************************)
(* The catalog: filterPresets, in declaration order (id and apply).        *)
(***************************************************************************)
filterPresets ==
    << [id |-> "normal",         apply |-> "normal"],
       [id |-> "google-style",   apply |-> "googleStyle"],
       [id |-> "google-pop",     apply |-> "googlePop"],
       [id |-> "google-vivid",   apply |-> "googleVivid"],
       [id |-> "google-natural", apply |-> "googleNatural"],
       [id |-> "google-hdr",     apply |-> "googleHDR"],
       [id |-> "clarendon",      apply |-> "clarendon"],
       [id |-> "gingham",        apply |-> "gingham"],
       [id |-> "reyes",          apply |-> "reyes"],
       [id |-> "stinson",        apply |-> "stinson"],
       [id |-> "earlybird",      apply |-> "earlybird"],
       [id |-> "toaster",        apply |-> "toaster"],
       [id |-> "walden",         apply |-> "walden"],
       [id |-> "1977",           apply |-> "f1977"],
       [id |-> "brooklyn",       apply |-> "brooklyn"],
       [id |-> "moon",           apply |-> "moon"],
       [id |-> "willow",         apply |-> "willow"],
       [id |-> "inkwell",        apply |-> "inkwell"],
       [id |-> "lark",           apply |-> "lark"],
       [id |-> "juno",           apply |-> "juno"],
       [id |-> "amaro",          apply |-> "amaro"],
       [id |-> "mayfair",        apply |-> "mayfair"],
       [id |-> "rise",           apply |-> "rise"],
       [id |-> "valencia",       apply |-> "valencia"],
       [id |-> "kelvin",         apply |-> "kelvin"],
       [id |-> "nashville",      apply |-> "nashville"],
       [id |-> "vesper",         apply |-> "vesper"],
       [id |-> "ashby",          apply |-> "ashby"],
       [id |-> "charmes",        apply |-> "charmes"],
       [id |-> "ginza",          apply |-> "ginza"],
       [id |-> "hudson",         apply |-> "hudson"],
       [id |-> "slumber",        apply |-> "slumber"],
       [id |-> "aden",           apply |-> "aden"],
       [id |-> "perpetua",       apply |-> "perpetua"],
       [id |-> "crema",          apply |-> "crema"],
       [id |-> "ludwig",         apply |-> "ludwig"],
       [id |-> "xpro2",          apply |-> "xpro2"],
       [id |-> "lofi",           apply |-> "lofi"],
       [id |-> "hefe",           apply |-> "hefe"],
       [id |-> "brannan",        apply |-> "brannan"],
       [id |-> "sutro",          apply |-> "sutro"],
       [id |-> "skyline",        apply |-> "skyline"],
       [id |-> "dogpatch",       apply |-> "dogpatch"],
       [id |-> "maven",          apply |-> "maven"],
       [id |-> "helena",         apply |-> "helena"],
       [id |-> "sierra",         apply |-> "sierra"] >>

\* imageStyles = filterPresets.map(...): same ids, same order.  A run of the
\* model walks through its first NumStyles entries.
imageStyles == [k \in 1..NumStyles |-> filterPresets[k].id]

(***************************************************************************)
(* StyleSelector: useEffect(previewImage) and generateThumbnails.          *)
(***************************************************************************)
batchSize == 6

Images == 1..MaxImages
StyleIdx == 1..NumStyles

\* imageStyles.slice(i, i + batchSize), as 1-based positions (i is 0-based).
BatchOf(i) == {k \in StyleIdx : i < k /\ k <= i + batchSize}

\* What the data URL of a thumbnail depends on: the image and the filter.
DataUrl(img, id) == <<img, id>>

\* The placeholder of the catch branch: the empty string.
Placeholder == << >>

\* The value the wrapped promise of batch.map fulfils with, from the way
\* generateFilterThumbnail settled: the catch branch turns a rejection into
\* { id, thumbnail: '' }.
WrapperResult(img, id, status) ==
    IF status = "resolved" THEN DataUrl(img, id) ELSE Placeholder

\* (mutant) Promise.all over the bare calls, with no try/catch around them: it
\* is fulfilled only when every call of the batch resolved.
AllResolved(calls, batch) ==
    \A k \in batch : calls[k] = "resolved"

\* (mutant) Promise.race in place of Promise.all: one settled call is enough.
AnySettled(calls, batch) ==
    \E k \in batch : calls[k] \in {"resolved", "rejected"}

\* Promise.all(promises) over wrapped promises that never reject: fulfilled
\* once every call of the batch has settled.
AllSettled(calls, batch) ==
    \A k \in batch : calls[k] \in {"resolved", "rejected"}

\* (mutant) no try/catch around the call: one rejection rejects Promise.all and
\* the results of the whole batch are lost.
MergeAllOrNothing(newThumbnails, img, calls, batch) ==
    IF \E k \in batch : calls[k] = "rejected"
    THEN newThumbnails
    ELSE [id \in DOMAIN newThumbnails \cup {imageStyles[k] : k \in batch} |->
            IF \E k \in batch : imageStyles[k] = id
            THEN DataUrl(img, id)
            ELSE newThumbnails[id]]

\* results.forEach(({id, thumbnail}) => { if (thumbnail) newThumbnails[id] = thumbnail })
MergeResults(newThumbnails, img, calls, batch) ==
    LET kept == {k \in batch : WrapperResult(img, imageStyles[k], calls[k]) # Placeholder}
        ids  == DOMAIN newThumbnails \cup {imageStyles[k] : k \in kept}
    IN  [id \in ids |->
            IF \E k \in kept : imageStyles[k] = id
            THEN LET k == CHOOSE j \in kept : imageStyles[j] = id
                 IN  WrapperResult(img, id, calls[k])
            ELSE newThumbnails[id]]

\* (mutant) the isCancelled test before setThumbnails is missing.
SetThumbnailsUnguarded(isCancelled, prev, newThumbnails) ==
    [id \in DOMAIN prev \cup DOMAIN newThumbnails |->
        IF id \in DOMAIN newThumbnails THEN newThumbnails[id] ELSE prev[id]]

\* if (!isCancelled) setThumbnails(prev => ({ ...prev, ...newThumbnails }))
SetThumbnails(isCancelled, prev, newThumbnails) ==
    IF ~isCancelled
    THEN [id \in DOMAIN prev \cup DOMAIN newThumbnails |->
             IF id \in DOMAIN newThumbnails THEN newThumbnails[id] ELSE prev[id]]
    ELSE prev

\* The loop test after a batch: i < imageStyles.length, then if (isCancelled) break.
StartsNextBatch(isCancelled, i) == i < NumStyles /\ ~isCancelled

\* The environment of the model: the positions in imageStyles whose
\* generateFilterThumbnail call may reject (one in the first batch, one in the
\* second); every other call resolves.
FragileStyles == {2, batchSize + 1}

IdleRun ==
    [phase |-> "idle", i |-> 0, isCancelled |-> FALSE,
     calls |-> [k \in StyleIdx |-> "none"], newThumbnails |-> << >>]

\* The effect body for a truthy previewImage, up to the first await: the first
\* batch's generateFilterThumbnail calls are started synchronously.
FirstBatchRun ==
    [phase |-> "await", i |-> 0, isCancelled |-> FALSE,
     calls |-> [k \in StyleIdx |-> IF k \in BatchOf(0) THEN "pending" ELSE "none"],
     newThumbnails |-> << >>]

\* return () => { isCancelled = true }: the cleanup of the effect that ran for
\* the previous value of previewImage.
Cleanup(rs, old) ==
    IF old = 0 THEN rs ELSE [rs EXCEPT ![old].isCancelled = TRUE]

\* The previewImage prop changes; React runs the cleanup of the previous effect
\* and then the effect for the new value.  img = 0 is the undefined prop, for
\* which the effect returns early; any other value is the next new image
\* (images are numbered in the order they are shown).
PreviewImageChanges(img) ==
    /\ img # previewImage
    /\ img # 0 => /\ runs[img].phase = "idle"
                  /\ \A q \in Images : q < img => runs[q].phase # "idle"
    /\ previewImage' = img
    /\ IF img = 0
       THEN /\ runs' = Cleanup(runs, previewImage)
            /\ UNCHANGED isGeneratingThumbnails
       ELSE /\ runs' = [Cleanup(runs, previewImage) EXCEPT ![img] = FirstBatchRun]
            /\ isGeneratingThumbnails' = TRUE
    /\ UNCHANGED <<thumbnails, filterVars, previewVars>>

\* One generateFilterThumbnail call of run r settles (img.onload / img.onerror
\* / a throw inside onload).
ThumbnailSettles(r, k, status) ==
    /\ status = "rejected" => k \in FragileStyles
    /\ runs[r].phase = "await"
    /\ runs[r].calls[k] = "pending"
    /\ runs' = [runs EXCEPT ![r].calls[k] = status]
    /\ UNCHANGED <<previewImage, thumbnails, isGeneratingThumbnails, filterVars, previewVars>>

\* The continuation of `await Promise.all(promises)` in run r, up to the next
\* await or the end of generateThumbnails.
BatchCompletes(r) ==
    LET run   == runs[r]
        batch == BatchOf(run.i)
        nt    == MergeResults(run.newThumbnails, r, run.calls, batch)
        i2    == run.i + batchSize
    IN  /\ run.phase = "await"
        /\ AllSettled(run.calls, batch)
        /\ thumbnails' = SetThumbnails(run.isCancelled, thumbnails, nt)
        /\ IF StartsNextBatch(run.isCancelled, i2)
           THEN /\ runs' = [runs EXCEPT ![r].newThumbnails = nt,
                                        ![r].i = i2,
                                        ![r].calls = [k \in StyleIdx |->
                                            IF k \in BatchOf(i2) THEN "pending"
                                            ELSE run.calls[k]]]
                /\ UNCHANGED isGeneratingThumbnails
           ELSE /\ runs' = [runs EXCEPT ![r].newThumbnails = nt,
                                        ![r].i = i2,
                                        ![r].phase = "done"]
                /\ isGeneratingThumbnails' = FALSE
        /\ UNCHANGED <<previewImage, filterVars, previewVars>>

InitSelector ==
    /\ previewImage = 0
    /\ runs = [r \in Images |-> IdleRun]
    /\ thumbnails = << >>
    /\ isGeneratingThumbnails = FALSE

InitFilterIdle ==
    /\ call = << >>
    /\ outcome = "none"
    /\ filter = << >>
    /\ originalData = << >>
    /\ filteredData = << >>
    /\ imageData = << >>
    /\ pc = 0
    /\ hsv = << >>
    /\ rgb = << >>

\* ImagePreview before it is mounted.
InitPreview ==
    /\ mounted = "no"
    /\ props = << >>
    /\ processedImage = << >>
    /\ isProcessing = FALSE
    /\ previousProcessedUrl = << >>
    /\ effects = << >>
    /\ revokedUrls = {}

Init == InitSelector /\ InitFilterIdle /\ InitPreview

Next ==
    \/ \E img \in {0} \cup Images : PreviewImageChanges(img)
    \/ \E r \in Images, k \in StyleIdx, status \in {"resolved", "rejected"} :
           ThumbnailSettles(r, k, status)
    \/ \E r \in Images : BatchCompletes(r)

Spec == Init /\ [][Next]_vars

\* Spec with the scheduling the claims on termination assume: every
\* generateFilterThumbnail call that was started settles (the image loads or
\* fails to load), and the continuation of a fulfilled Promise.all is run by
\* the microtask queue.
SpecFair ==
    /\ Spec
    /\ \A r \in Images, k \in StyleIdx :
           WF_vars(\E status \in {"resolved", "rejected"} : ThumbnailSettles(r, k, status))
    /\ \A r \in Images : WF_vars(BatchCompletes(r))

(***************************************************************************)
(* Pixel buffers and the operators of filters.ts.                          *)
(*                                                                         *)
(* An ImageData is [width, height, data], data a function on               *)
(* 0 .. 4*width*height-1 (a Uint8ClampedArray).  Real-valued parameters    *)
(* are carried in hundredths (adj = 0.15 is 15) and every channel formula  *)
(* is evaluated as an exact fraction num/den before it is stored, so the   *)
(* value stored differs from the IEEE-754 one only when the exact value is *)
(* a tie between two integers.                                             *)
(***************************************************************************)

\* (mutant) a plain Uint8Array store: truncation instead of rounding.
Uint8Truncated(num, den) ==
    IF num <= 0 THEN 0
    ELSE IF num >= 255 * den THEN 255
    ELSE num \div den

\* (mutant) a store into a plain number array: rounded, never clamped.
StoredUnclamped(num, den) == (2 * num + den) \div (2 * den)

\* The store into a Uint8ClampedArray of the real num/den (den > 0): clamped
\* to [0,255] and rounded to the nearest integer, ties to even.
Uint8Clamped(num, den) ==
    IF num <= 0 THEN 0
    ELSE IF num >= 255 * den THEN 255
    ELSE LET q  == num \div den
             r2 == 2 * (num % den)
         IN  IF r2 < den THEN q
             ELSE IF r2 > den THEN q + 1
             ELSE IF q % 2 = 0 THEN q ELSE q + 1

\* Math.round of num/den (den > 0): floor(x + 1/2).
MathRound(num, den) == (2 * num + den) \div (2 * den)

\* Math.max(lo, Math.min(hi, x)) on integers.
MaxMin(lo, hi, x) == IF x < lo THEN lo ELSE IF x > hi THEN hi ELSE x

\* d[i], d[i + 1], d[i + 2] of one pixel, by channel offset c.
Channel(r, g, b, c) == IF c = 0 THEN r ELSE IF c = 1 THEN g ELSE b

\* grayscale: avg = 0.2126 r + 0.7152 g + 0.0722 b, stored in all three.
grayscale(r, g, b, c) == Uint8Clamped(2126 * r + 7152 * g + 722 * b, 10000)

\* (mutant) 0.227 for 0.272 in the blue row.
sepiaBlueRowTypo(adj, r, g, b, c) ==
    IF c = 0 THEN Uint8Clamped(r * (100000 - 607 * adj) + g * 769 * adj + b * 189 * adj, 100000)
    ELSE IF c = 1 THEN Uint8Clamped(r * 349 * adj + g * (100000 - 314 * adj) + b * 168 * adj, 100000)
    ELSE Uint8Clamped(r * 227 * adj + g * 534 * adj + b * (100000 - 869 * adj), 100000)

\* sepia(pixels, adj), adj in hundredths.
sepia(adj, r, g, b, c) ==
    IF c = 0 THEN Uint8Clamped(r * (100000 - 607 * adj) + g * 769 * adj + b * 189 * adj, 100000)
    ELSE IF c = 1 THEN Uint8Clamped(r * 349 * adj + g * (100000 - 314 * adj) + b * 168 * adj, 100000)
    ELSE Uint8Clamped(r * 272 * adj + g * 534 * adj + b * (100000 - 869 * adj), 100000)

\* brightness(pixels, adj): adj clamped to [-1,1], adjValue = Math.round(255 * adj).
brightness(adj, r, g, b, c) ==
    LET adjValue == MathRound(255 * MaxMin(-100, 100, adj), 100)
    IN  Uint8Clamped(Channel(r, g, b, c) + adjValue, 1)

\* (mutant) the convention of hueSaturation, where adj = 1 leaves the image
\* unchanged: channel = gray*(1 - adj) + channel*adj.
saturationUnitNeutral(adj, r, g, b, c) ==
    LET a    == IF adj < -100 THEN -100 ELSE adj
        gray == 2989 * r + 5870 * g + 1140 * b
    IN  Uint8Clamped(10000 * Channel(r, g, b, c) * a + gray * (100 - a), 1000000)

\* saturation(pixels, adj): adj = Math.max(-1, adj),
\* gray = 0.2989 r + 0.5870 g + 0.1140 b, channel = -gray*adj + channel*(1 + adj).
saturation(adj, r, g, b, c) ==
    LET a    == IF adj < -100 THEN -100 ELSE adj
        gray == 2989 * r + 5870 * g + 1140 * b
    IN  Uint8Clamped(10000 * Channel(r, g, b, c) * (100 + a) - gray * a, 1000000)

\* contrast(pixels, adj): adjValue = adj * 255,
\* factor = 259 (adjValue + 255) / (255 (259 - adjValue)), which for adj in
\* hundredths is 259 (adj + 100) / (25900 - 255 adj);
\* channel = factor * (channel - 128) + 128.
\* The factor is kept as the pair numerator, denominator, both divided by the
\* constant 255 / 100 of the source's expression.
ContrastNumerator(adj) == 259 * (adj + 100)

\* (mutant) a denominator of 255 (255 - adjValue).
ContrastDenominatorAt255(adj) == 25500 - 255 * adj

ContrastDenominator(adj) == 25900 - 255 * adj

\* A zero denominator makes the factor +Infinity (or NaN for channel 128): the
\* store of +Infinity is 255, of -Infinity and of NaN 0.
contrast(adj, r, g, b, c) ==
    LET fnum == ContrastNumerator(adj)
        fden == ContrastDenominator(adj)
    IN  Uint8Clamped(fnum * (Channel(r, g, b, c) - 128) + 128 * fden, fden)

\* colorFilter(pixels, [R, G, B, adj]): channel - (channel - target) * adj.
colorFilter(rgbColor, r, g, b, c) ==
    LET ch == Channel(r, g, b, c)
    IN  Uint8Clamped(100 * ch - (ch - rgbColor[c + 1]) * rgbColor[4], 100)

\* rgbAdjust(pixels, [rMult, gMult, bMult]): channel * multiplier.
rgbAdjust(rgbAdj, r, g, b, c) ==
    Uint8Clamped(Channel(r, g, b, c) * rgbAdj[c + 1], 100)

\* (mutant) 256 - channel.
invertOffByOne(r, g, b, c) == Uint8Clamped(256 - Channel(r, g, b, c), 1)

\* invert(pixels): 255 - channel.
invert(r, g, b, c) == Uint8Clamped(255 - Channel(r, g, b, c), 1)

(***************************************************************************)
(* colorUtils.ts.  h, s, v and the channels HSVtoRGB returns are reals;    *)
(* they are carried as exact fractions <<n, d>>, d > 0, in lowest terms.   *)
(***************************************************************************)
RECURSIVE GCD(_, _)
GCD(a, b) == IF b = 0 THEN a ELSE GCD(b, a % b)

Frac(n, d) ==
    LET g == GCD(IF n < 0 THEN -n ELSE n, d)
    IN  <<n \div g, d \div g>>

Times(x, y) == Frac(x[1] * y[1], x[2] * y[2])
Minus(x, y) == Frac(x[1] * y[2] - y[1] * x[2], x[2] * y[2])
Floor(x) == x[1] \div x[2]

\* (mutant) the red branch without `+ (g < b ? 6 : 0)`.
RGBtoHSVNoWrap(r, g, b) ==
    LET max == IF r >= g /\ r >= b THEN r ELSE IF g >= b THEN g ELSE b
        min == IF r <= g /\ r <= b THEN r ELSE IF g <= b THEN g ELSE b
        d   == max - min
        s   == IF max = 0 THEN <<0, 1>> ELSE Frac(d, max)
        v   == Frac(max, 255)
        h   == IF max = min THEN <<0, 1>>
               ELSE IF max = r THEN Times(Frac(g - b, d), <<1, 6>>)
               ELSE IF max = g THEN Times(Frac((b - r) + 2 * d, d), <<1, 6>>)
               ELSE Times(Frac((r - g) + 4 * d, d), <<1, 6>>)
    IN  <<h, s, v>>

\* RGBtoHSV(r, g, b): max, min and d are kept in 255ths, so s = d / max and
\* v = max / 255; the switch compares max with r, then g, then b.
RGBtoHSV(r, g, b) ==
    LET max == IF r >= g /\ r >= b THEN r ELSE IF g >= b THEN g ELSE b
        min == IF r <= g /\ r <= b THEN r ELSE IF g <= b THEN g ELSE b
        d   == max - min
        s   == IF max = 0 THEN <<0, 1>> ELSE Frac(d, max)
        v   == Frac(max, 255)
        h   == IF max = min THEN <<0, 1>>
               ELSE IF max = r
                    THEN Times(Frac((g - b) + (IF g < b THEN 6 * d ELSE 0), d), <<1, 6>>)
               ELSE IF max = g
                    THEN Times(Frac((b - r) + 2 * d, d), <<1, 6>>)
               ELSE Times(Frac((r - g) + 4 * d, d), <<1, 6>>)
    IN  <<h, s, v>>

\* HSVtoRGB(h, s, v): i = Math.floor(h * 6), the switch on i % 6 (no case
\* matches a negative remainder, which leaves r = g = b = 0), the result
\* scaled by 255.
HSVtoRGB(h, s, v) ==
    LET one == <<1, 1>>
        h6  == Times(h, <<6, 1>>)
        i   == Floor(h6)
        f   == Minus(h6, <<i, 1>>)
        p   == Times(v, Minus(one, s))
        q   == Times(v, Minus(one, Times(f, s)))
        t   == Times(v, Minus(one, Times(Minus(one, f), s)))
        m   == i % 6
        out == IF i < 0 /\ m # 0 THEN << <<0, 1>>, <<0, 1>>, <<0, 1>> >>
               ELSE CASE m = 0 -> <<v, t, p>>
                      [] m = 1 -> <<q, v, p>>
                      [] m = 2 -> <<p, v, t>>
                      [] m = 3 -> <<p, q, v>>
                      [] m = 4 -> <<t, p, v>>
                      [] m = 5 -> <<v, p, q>>
    IN  [k \in 1..3 |-> Times(out[k], <<255, 1>>)]

\* hueSaturation(pixels, adj), adj in hundredths: hsv[1] *= adj, clamped to
\* [0,1]; the channels HSVtoRGB returns are stored into d.
hueSaturation(adj, r, g, b, c) ==
    LET h0  == RGBtoHSV(r, g, b)
        s1  == Times(h0[2], Frac(adj, 100))
        s2  == IF s1[1] < 0 THEN <<0, 1>> ELSE IF s1[1] > s1[2] THEN <<1, 1>> ELSE s1
        out == HSVtoRGB(h0[1], s2, h0[3])
    IN  Uint8Clamped(out[c + 1][1], out[c + 1][2])

\* One per-pixel operator applied to the channel c of a pixel (r, g, b).
PixelOp(step, r, g, b, c) ==
    CASE step.op = "grayscale"   -> grayscale(r, g, b, c)
      [] step.op = "sepia"       -> sepia(step.args[1], r, g, b, c)
      [] step.op = "brightness"  -> brightness(step.args[1], r, g, b, c)
      [] step.op = "saturation"  -> saturation(step.args[1], r, g, b, c)
      [] step.op = "contrast"    -> contrast(step.args[1], r, g, b, c)
      [] step.op = "colorFilter" -> colorFilter(step.args, r, g, b, c)
      [] step.op = "rgbAdjust"   -> rgbAdjust(step.args, r, g, b, c)
      [] step.op = "invert"      -> invert(r, g, b, c)
      [] step.op = "hueSaturation" -> hueSaturation(step.args[1], r, g, b, c)

\* for (let i = 0; i < d.length; i += 4): the operator on every pixel, in
\* place; d[i + 3] is never written.
PerPixel(pixels, step) ==
    [pixels EXCEPT !.data =
        [i \in DOMAIN pixels.data |->
            LET base == i - (i % 4)
            IN  IF i % 4 = 3 THEN pixels.data[i]
                ELSE PixelOp(step, pixels.data[base], pixels.data[base + 1],
                             pixels.data[base + 2], i % 4)]]

\* Math.round(Math.sqrt(n)): the s with (s - 1/2)^2 <= n < (s + 1/2)^2.
RoundSqrt(n) ==
    CHOOSE s \in 0..n : /\ s = 0 \/ (2 * s - 1) * (2 * s - 1) <= 4 * n
                        /\ 4 * n < (2 * s + 1) * (2 * s + 1)

\* (mutant) a kernel anchored at its top-left weight.
HalfSideZero(side) == 0

\* halfSide = Math.floor(side / 2)
HalfSide(side) == side \div 2

\* The kernel positions n = cy * side + cx + 1 whose source pixel for the
\* output pixel (x, y) lies inside the image: the test
\* `scy >= 0 && scy < sh && scx >= 0 && scx < sw`.
InsideImage(pixels, side, x, y, n) ==
    LET scy == y + ((n - 1) \div side) - HalfSide(side)
        scx == x + ((n - 1) % side) - HalfSide(side)
    IN  scy >= 0 /\ scy < pixels.height /\ scx >= 0 /\ scx < pixels.width

\* weights[cy * side + cx] is undefined for some position the loops read: the
\* product with undefined is NaN, and so are r, g and b from then on.
KernelNaN(pixels, weights, side, x, y) ==
    \E n \in 1..(side * side) :
        InsideImage(pixels, side, x, y, n) /\ n > Len(weights)

\* The inner cy/cx loops of convolute for the output pixel (x, y) and channel
\* c: the sum of d[srcOff + c] * wt over the first n kernel positions whose
\* source pixel lies inside the image (weights in hundredths).
RECURSIVE KernelSum(_, _, _, _, _, _, _)
KernelSum(pixels, weights, side, x, y, c, n) ==
    IF n = 0 THEN 0
    ELSE LET cy  == (n - 1) \div side
             cx  == (n - 1) % side
             scy == y + cy - HalfSide(side)
             scx == x + cx - HalfSide(side)
             rest == KernelSum(pixels, weights, side, x, y, c, n - 1)
         IN  IF InsideImage(pixels, side, x, y, n)
             THEN rest + pixels.data[(scy * pixels.width + scx) * 4 + c] * weights[cy * side + cx + 1]
             ELSE rest

\* (mutant) the output array is copied back without its alpha having been set:
\* a new Uint8ClampedArray holds zeros.
convoluteDropsAlpha(pixels, weights) ==
    LET side == RoundSqrt(Len(weights))
        sw   == pixels.width
    IN  [pixels EXCEPT !.data =
            [i \in DOMAIN pixels.data |->
                LET p == i \div 4
                IN  IF i % 4 = 3 THEN 0
                    ELSE IF KernelNaN(pixels, weights, side, p % sw, p \div sw) THEN 0
                    ELSE Uint8Clamped(
                             KernelSum(pixels, weights, side, p % sw, p \div sw,
                                       i % 4, side * side),
                             100)]]

\* (mutant) the loops of convolute writing into d itself: the buffer after the
\* first n output pixels, each computed from the buffer as it then is.
RECURSIVE ConvolvedInPlace(_, _, _, _)
ConvolvedInPlace(pixels, weights, side, n) ==
    IF n = 0 THEN pixels
    ELSE LET prev == ConvolvedInPlace(pixels, weights, side, n - 1)
             x    == (n - 1) % pixels.width
             y    == (n - 1) \div pixels.width
         IN  [prev EXCEPT !.data =
                 [i \in DOMAIN prev.data |->
                     IF i \div 4 # n - 1 \/ i % 4 = 3 THEN prev.data[i]
                     ELSE IF KernelNaN(prev, weights, side, x, y) THEN 0
                     ELSE Uint8Clamped(
                              KernelSum(prev, weights, side, x, y, i % 4, side * side),
                              100)]]

\* (mutant) convolute without its separate output array.
convoluteInPlace(pixels, weights) ==
    ConvolvedInPlace(pixels, weights, RoundSqrt(Len(weights)),
                     pixels.width * pixels.height)

\* convolute(pixels, weights): every output pixel is computed from the input
\* data d into a separate output array, which is then copied back.  A NaN sum
\* passes Math.max / Math.min as NaN and is stored as 0.
convolute(pixels, weights) ==
    LET side == RoundSqrt(Len(weights))
        sw   == pixels.width
    IN  [pixels EXCEPT !.data =
            [i \in DOMAIN pixels.data |->
                LET p == i \div 4
                IN  IF i % 4 = 3 THEN pixels.data[i]
                    ELSE IF KernelNaN(pixels, weights, side, p % sw, p \div sw) THEN 0
                    ELSE Uint8Clamped(
                             KernelSum(pixels, weights, side, p % sw, p \div sw,
                                       i % 4, side * side),
                             100)]]

\* (mutant) a sharpening kernel over all eight neighbours.
sharpenEightNeighbours(pixels, amount) ==
    convolute(pixels, << -amount, -amount, -amount,
                         -amount, 100 + 8 * amount, -amount,
                         -amount, -amount, -amount >>)

\* sharpen(pixels, amount): the 3x3 kernel [0,-a,0, -a,1+4a,-a, 0,-a,0].
sharpen(pixels, amount) ==
    convolute(pixels, << 0, -amount, 0,
                         -amount, 100 + 4 * amount, -amount,
                         0, -amount, 0 >>)

\* The channel value d stored by vignette at a pixel whose squared distance
\* from the centre is A/4, in an image whose squared half-diagonal is B/4
\* (amount a in tenths): Math.max(0, d * (1 - sqrt(A / B) * a / 10)) stored
\* into d.  With K = d * a * sqrt(A / B) / 10 the stored v is the integer
\* nearest to d - K (ties to even), found by comparing squares.
VignetteChannel(d, a, A, B) ==
    IF d = 0 \/ a * a * A >= 100 * B THEN 0
    ELSE LET K2 == (2 * d * a) * (2 * d * a) * A
             Sq(v, k) == ((2 * (d - v) + k) * 10) * ((2 * (d - v) + k) * 10) * B
         IN  CHOOSE v \in 0..d :
                 /\ \/ v = d
                    \/ Sq(v, -1) < K2
                    \/ Sq(v, -1) = K2 /\ v % 2 = 0
                 /\ \/ K2 < Sq(v, 1)
                    \/ K2 = Sq(v, 1) /\ v % 2 = 0

\* vignette(pixels, amount): cx = w / 2, cy = h / 2, dist and maxDist taken in
\* half-pixels: A = (2x - w)^2 + (2y - h)^2, B = w^2 + h^2.
vignette(pixels, amount) ==
    LET w == pixels.width
        h == pixels.height
    IN  [pixels EXCEPT !.data =
            [i \in DOMAIN pixels.data |->
                LET x == (i \div 4) % w
                    y == (i \div 4) \div w
                IN  IF i % 4 = 3 THEN pixels.data[i]
                    ELSE VignetteChannel(pixels.data[i], amount,
                                         (2 * x - w) * (2 * x - w) + (2 * y - h) * (2 * y - h),
                                         w * w + h * h)]]

\* (mutant) a draw of Math.random() for every channel instead of every pixel.
noisePerChannel(pixels, amount, random) ==
    [pixels EXCEPT !.data = [i \in DOMAIN pixels.data |->
        IF i % 4 = 3 THEN pixels.data[i]
        ELSE Uint8Clamped(100 * pixels.data[i]
                 + (random[((3 * (i \div 4) + (i % 4)) % Len(random)) + 1] - 50) * amount,
                 100)]]

\* noise(pixels, amount): random[k] is what Math.random() returns for the
\* k-th pixel, in hundredths; noiseVal = (Math.random() - 0.5) * amount is
\* added to the three channels of the pixel.
noise(pixels, amount, random) ==
    [pixels EXCEPT !.data =
        [i \in DOMAIN pixels.data |->
            IF i % 4 = 3 THEN pixels.data[i]
            ELSE Uint8Clamped(
                     100 * pixels.data[i]
                         + (random[((i \div 4) % Len(random)) + 1] - 50) * amount,
                     100)]]

\* One call `pixels = filters.op(pixels, ...)`.
ApplyStep(pixels, step) ==
    CASE step.op = "sharpen"   -> sharpen(pixels, step.args[1])
      [] step.op = "convolute" -> convolute(pixels, step.args)
      [] step.op = "vignette"  -> vignette(pixels, step.args[1])
      [] step.op = "noise"     -> noise(pixels, step.args[1], step.args[2])
      [] OTHER                 -> PerPixel(pixels, step)

(***************************************************************************)
(* instaFilters.ts: every filter function as the sequence of its calls.    *)
(***************************************************************************)
Step(op, args) == [op |-> op, args |-> args]

\* (mutant) the identity filter bound to a function that calls grayscale.
normalCallsGrayscale == << Step("grayscale", << >>) >>

normal == << >>

googleStyle ==
    << Step("saturation", <<35>>),
       Step("contrast", <<12>>),
       Step("rgbAdjust", <<98, 100, 112>>),
       Step("brightness", <<5>>),
       Step("sharpen", <<30>>) >>

googlePop ==
    << Step("saturation", <<50>>),
       Step("contrast", <<18>>),
       Step("rgbAdjust", <<102, 105, 115>>),
       Step("sharpen", <<40>>) >>

googleVivid ==
    << Step("saturation", <<60>>),
       Step("contrast", <<20>>),
       Step("rgbAdjust", <<100, 102, 118>>),
       Step("brightness", <<3>>),
       Step("sharpen", <<50>>) >>

googleNatural ==
    << Step("saturation", <<20>>),
       Step("contrast", <<8>>),
       Step("rgbAdjust", <<100, 102, 108>>),
       Step("sharpen", <<20>>) >>

googleHDR ==
    << Step("saturation", <<40>>),
       Step("contrast", <<22>>),
       Step("rgbAdjust", <<102, 104, 112>>),
       Step("brightness", <<-2>>),
       Step("sharpen", <<35>>) >>

clarendon ==
    << Step("brightness", <<10>>),
       Step("contrast", <<10>>),
       Step("saturation", <<15>>) >>

gingham ==
    << Step("sepia", <<4>>),
       Step("contrast", <<-15>>) >>

reyes ==
    << Step("sepia", <<40>>),
       Step("brightness", <<13>>),
       Step("contrast", <<-5>>) >>

stinson ==
    << Step("brightness", <<10>>),
       Step("sepia", <<30>>) >>

earlybird ==
    << Step("colorFilter", <<255, 165, 40, 20>>) >>

toaster ==
    << Step("sepia", <<10>>),
       Step("colorFilter", <<255, 145, 0, 20>>) >>

walden ==
    << Step("brightness", <<10>>),
       Step("colorFilter", <<255, 255, 0, 20>>) >>

f1977 ==
    << Step("colorFilter", <<255, 25, 0, 15>>),
       Step("brightness", <<10>>) >>

brooklyn ==
    << Step("colorFilter", <<25, 240, 252, 5>>),
       Step("sepia", <<30>>) >>

moon ==
    << Step("grayscale", <<>>),
       Step("contrast", <<-4>>),
       Step("brightness", <<10>>) >>

willow ==
    << Step("grayscale", <<>>),
       Step("colorFilter", <<100, 28, 210, 3>>),
       Step("brightness", <<10>>) >>

inkwell ==
    << Step("grayscale", <<>>) >>

lark ==
    << Step("brightness", <<8>>),
       Step("rgbAdjust", <<100, 103, 105>>),
       Step("saturation", <<12>>) >>

juno ==
    << Step("rgbAdjust", <<101, 104, 100>>),
       Step("saturation", <<30>>) >>

amaro ==
    << Step("saturation", <<30>>),
       Step("brightness", <<15>>) >>

mayfair ==
    << Step("colorFilter", <<230, 115, 108, 5>>),
       Step("saturation", <<15>>) >>

rise ==
    << Step("colorFilter", <<255, 170, 0, 10>>),
       Step("brightness", <<9>>),
       Step("saturation", <<10>>) >>

valencia ==
    << Step("colorFilter", <<255, 225, 80, 8>>),
       Step("saturation", <<10>>),
       Step("contrast", <<5>>) >>

kelvin ==
    << Step("colorFilter", <<255, 140, 0, 10>>),
       Step("rgbAdjust", <<115, 105, 100>>),
       Step("saturation", <<35>>) >>

nashville ==
    << Step("colorFilter", <<220, 115, 188, 12>>),
       Step("contrast", <<-5>>) >>

vesper ==
    << Step("colorFilter", <<255, 225, 0, 5>>),
       Step("brightness", <<6>>),
       Step("contrast", <<6>>) >>

ashby ==
    << Step("colorFilter", <<255, 160, 25, 10>>),
       Step("brightness", <<10>>) >>

charmes ==
    << Step("colorFilter", <<255, 50, 80, 12>>),
       Step("contrast", <<5>>) >>

ginza ==
    << Step("sepia", <<6>>),
       Step("brightness", <<10>>) >>

hudson ==
    << Step("rgbAdjust", <<100, 100, 125>>),
       Step("contrast", <<10>>),
       Step("brightness", <<15>>) >>

slumber ==
    << Step("brightness", <<10>>),
       Step("saturation", <<-50>>) >>

aden ==
    << Step("colorFilter", <<228, 130, 225, 13>>),
       Step("saturation", <<-20>>) >>

perpetua ==
    << Step("rgbAdjust", <<105, 110, 100>>) >>

crema ==
    << Step("rgbAdjust", <<104, 100, 102>>),
       Step("saturation", <<-5>>) >>

ludwig ==
    << Step("brightness", <<5>>),
       Step("saturation", <<-3>>) >>

xpro2 ==
    << Step("colorFilter", <<255, 255, 0, 7>>),
       Step("saturation", <<20>>),
       Step("contrast", <<15>>) >>

lofi ==
    << Step("contrast", <<15>>),
       Step("saturation", <<20>>) >>

hefe ==
    << Step("contrast", <<10>>),
       Step("saturation", <<15>>) >>

brannan ==
    << Step("contrast", <<20>>),
       Step("colorFilter", <<140, 10, 185, 10>>) >>

sutro ==
    << Step("brightness", <<-10>>),
       Step("saturation", <<-10>>) >>

skyline ==
    << Step("saturation", <<35>>),
       Step("brightness", <<10>>) >>

dogpatch ==
    << Step("contrast", <<15>>),
       Step("brightness", <<10>>) >>

maven ==
    << Step("colorFilter", <<225, 240, 0, 10>>),
       Step("saturation", <<25>>),
       Step("contrast", <<5>>) >>

helena ==
    << Step("colorFilter", <<208, 208, 86, 20>>),
       Step("contrast", <<15>>) >>

sierra ==
    << Step("contrast", <<-15>>),
       Step("saturation", <<10>>) >>

\* The function a preset's apply field refers to.
FilterFunction(name) ==
    CASE
          name = "normal" -> normal
       [] name = "googleStyle" -> googleStyle
       [] name = "googlePop" -> googlePop
       [] name = "googleVivid" -> googleVivid
       [] name = "googleNatural" -> googleNatural
       [] name = "googleHDR" -> googleHDR
       [] name = "clarendon" -> clarendon
       [] name = "gingham" -> gingham
       [] name = "reyes" -> reyes
       [] name = "stinson" -> stinson
       [] name = "earlybird" -> earlybird
       [] name = "toaster" -> toaster
       [] name = "walden" -> walden
       [] name = "f1977" -> f1977
       [] name = "brooklyn" -> brooklyn
       [] name = "moon" -> moon
       [] name = "willow" -> willow
       [] name = "inkwell" -> inkwell
       [] name = "lark" -> lark
       [] name = "juno" -> juno
       [] name = "amaro" -> amaro
       [] name = "mayfair" -> mayfair
       [] name = "rise" -> rise
       [] name = "valencia" -> valencia
       [] name = "kelvin" -> kelvin
       [] name = "nashville" -> nashville
       [] name = "vesper" -> vesper
       [] name = "ashby" -> ashby
       [] name = "charmes" -> charmes
       [] name = "ginza" -> ginza
       [] name = "hudson" -> hudson
       [] name = "slumber" -> slumber
       [] name = "aden" -> aden
       [] name = "perpetua" -> perpetua
       [] name = "crema" -> crema
       [] name = "ludwig" -> ludwig
       [] name = "xpro2" -> xpro2
       [] name = "lofi" -> lofi
       [] name = "hefe" -> hefe
       [] name = "brannan" -> brannan
       [] name = "sutro" -> sutro
       [] name = "skyline" -> skyline
       [] name = "dogpatch" -> dogpatch
       [] name = "maven" -> maven
       [] name = "helena" -> helena
       [] name = "sierra" -> sierra

\* The statements of a filter function, in order: the first n of them.
RECURSIVE RunSteps(_, _, _)
RunSteps(pixels, steps, n) ==
    IF n = 0 THEN pixels
    ELSE ApplyStep(RunSteps(pixels, steps, n - 1), steps[n])

\* preset.apply(pixels)
Apply(preset, pixels) ==
    LET steps == FilterFunction(preset.apply)
    IN  RunSteps(pixels, steps, Len(steps))

\* The first preset at positions n.. of filterPresets whose id is id.
RECURSIVE Find(_, _)
Find(id, n) ==
    IF n > Len(filterPresets) THEN << >>
    ELSE IF filterPresets[n].id = id THEN << filterPresets[n] >>
    ELSE Find(id, n + 1)

\* (mutant) a lookup that falls back to the first preset.
getFilterByIdOrDefault(id) ==
    IF Find(id, 1) = << >> THEN << filterPresets[1] >> ELSE Find(id, 1)

\* getFilterById(id) = filterPresets.find(f => f.id === id); undefined is << >>.
getFilterById(id) == Find(id, 1)

(***************************************************************************)
(* imageProcessing.ts: applyFilterToImage and generateFilterThumbnail.     *)
(***************************************************************************)

\* (mutant) the two weights of the blend exchanged.
BlendSwapped(original, filtered, strength) ==
    Uint8Clamped(original * strength + filtered * (100 - strength), 100)

\* originalData[i] * (1 - strength) + imageData.data[i] * strength, stored
\* into imageData.data (strength in hundredths).
Blend(original, filtered, strength) ==
    Uint8Clamped(original * (100 - strength) + filtered * strength, 100)

\* The blend loop: channels i, i + 1, i + 2 of every pixel; i + 3 is not written.
BlendLoop(original, filtered, strength) ==
    [filtered EXCEPT !.data =
        [i \in DOMAIN filtered.data |->
            IF i % 4 = 3 THEN filtered.data[i]
            ELSE Blend(original.data[i], filtered.data[i], strength)]]

\* The body of `if (filter) { ... }` in applyFilterToImage.
FilterWithStrength(preset, pixels, strength) ==
    IF strength < 100
    THEN BlendLoop(pixels, Apply(preset, pixels), strength)
    ELSE Apply(preset, pixels)

(***************************************************************************)
(* The inputs of the calls.                                                *)
(***************************************************************************)
CatalogIds == {filterPresets[k].id : k \in 1..Len(filterPresets)}
UnknownIds == {"no-such-filter", "Normal"}
FilterIds == CatalogIds \cup UnknownIds

\* strength, in hundredths: below 0, the two endpoints, inside (0,1), above 1.
Strengths == {-50, 0, 30, 50, 100, 150}

Palette ==
    << <<0, 0, 0, 255>>, <<255, 255, 255, 255>>, <<200, 100, 50, 128>>,
       <<13, 77, 201, 0>>, <<128, 128, 128, 255>> >>

\* A w x h buffer whose pixels walk through the palette from position seed.
Buffer(w, h, seed) ==
    [width |-> w, height |-> h,
     data |-> [i \in 0..(4 * w * h - 1) |->
                  Palette[((seed + (i \div 4)) % Len(Palette)) + 1][(i % 4) + 1]]]

Buffers ==
    {Buffer(w, h, seed) : w \in 1..MaxSide, h \in 1..MaxSide, seed \in 0..(Len(Palette) - 1)}

NoBuffer == [width |-> 0, height |-> 0, data |-> << >>]

\* The largest side of the one-colour buffers.
MaxUniformSide == 3

\* The w x h buffers whose pixels all have the same palette colour.
UniformBuffers ==
    {[width |-> w, height |-> h,
      data |-> [i \in 0..(4 * w * h - 1) |-> Palette[k][(i % 4) + 1]]] :
        w \in 1..MaxUniformSide, h \in 1..MaxUniformSide, k \in 1..Len(Palette)}

\* The amounts of sharpen called on its own, in hundredths (1 is the default).
SharpenAmounts == {20, 50, 100}

\* Math.random() for successive pixels, in hundredths.
RandomStreams == { <<0, 99>>, <<99, 0, 50>> }

\* Kernels for convolute (weights in hundredths): the identity and kernels of
\* 4, 8 and 16 weights.
IdentityKernel == <<0, 0, 0, 0, 100, 0, 0, 0, 0>>
Kernels ==
    { IdentityKernel,
      <<25, 25, 25, 25>>,
      <<0, 0, 0, 0, 100, 0, 0, 0>>,
      <<0, 0, 0, 0, 0, 0, 0, 0, 0, 0, 100, 0, 0, 0, 0, 0>> }

\* The calls of the operators of filters.ts a caller may make: the operators
\* no filter function of the catalog calls, and the calls with adjustment 0 or
\* 1 (the filter functions make the other calls of brightness, saturation,
\* contrast, colorFilter, rgbAdjust and sharpen).
OperatorCalls ==
    { Step("grayscale", << >>), Step("invert", << >>),
      Step("sepia", <<0>>), Step("sepia", <<100>>),
      Step("brightness", <<0>>),
      Step("hueSaturation", <<150>>),
      Step("saturation", <<0>>),
      Step("contrast", <<0>>),
      Step("colorFilter", <<255, 140, 0, 0>>), Step("colorFilter", <<0, 0, 255, 0>>),
      Step("vignette", <<5>>) }
    \cup {Step("convolute", k) : k \in Kernels}
    \cup {Step("noise", <<20, rnd>>) : rnd \in RandomStreams}

\* The adjustments of contrast called on its own, in hundredths: the ends and
\* the middle of [-1, 1] and their neighbours.
ContrastAdjs == {-100, -99, -50, -1, 0, 1, 50, 99, 100}

\* The channel values of the arguments of RGBtoHSV.
Shades == {0, 1, 127, 128, 254, 255}

Calls ==
    [fn : {"applyFilterToImage"}, filterId : FilterIds, strength : Strengths]
    \cup [fn : {"generateFilterThumbnail", "getFilterById"}, filterId : FilterIds,
          strength : {100}]
    \cup [fn : {"filterFunction"}, filterId : CatalogIds]
    \cup [fn : {"operators"}, steps : {<< >>}]
    \cup [fn : {"contrast"}, adj : ContrastAdjs]
    \cup [fn : {"sharpen"}, amount : SharpenAmounts]
    \cup [fn : {"RGBtoHSV"}, args : Shades \X Shades \X Shades]

(***************************************************************************)
(* One call, from its start to the settling of its promise.                *)
(***************************************************************************)
Pending(fns) == call.fn \in fns /\ outcome = "none"

\* getFilterById called on its own.
GetFilterByIdReturns ==
    /\ Pending({"getFilterById"})
    /\ filter' = getFilterById(call.filterId)
    /\ outcome' = "returned"
    /\ UNCHANGED <<call, originalData, filteredData, imageData, engineVars, selectorVars, previewVars>>

\* img.onerror: reject(new Error('Failed to load image')).
ImageFailsToLoad ==
    /\ Pending({"applyFilterToImage", "generateFilterThumbnail"})
    /\ outcome' = "rejected"
    /\ UNCHANGED <<call, filter, originalData, filteredData, imageData, engineVars, selectorVars, previewVars>>

\* img.onload with canvas.getContext('2d') null: reject('Canvas context not available').
NoCanvasContext ==
    /\ Pending({"applyFilterToImage", "generateFilterThumbnail"})
    /\ outcome' = "rejected"
    /\ UNCHANGED <<call, filter, originalData, filteredData, imageData, engineVars, selectorVars, previewVars>>

\* The pixels a call puts back on the canvas and the filter it looked up:
\* `if (filterId !== 'normal') { const filter = getFilterById(filterId); if (filter) ... }`.
Lookup(filterId) == IF filterId # "normal" THEN getFilterById(filterId) ELSE << >>

\* img.onload of applyFilterToImage, to the toBlob callback.
ApplyFilterToImageLoads(blob) ==
    /\ Pending({"applyFilterToImage"})
    /\ LET found == Lookup(call.filterId)
       IN  /\ filter' = found
           /\ filteredData' = IF found # << >> THEN Apply(found[1], originalData)
                              ELSE originalData
           /\ imageData' = IF found # << >>
                           THEN FilterWithStrength(found[1], originalData, call.strength)
                           ELSE originalData
    /\ outcome' = IF blob THEN "resolved" ELSE "rejected"
    /\ UNCHANGED <<call, originalData, engineVars, selectorVars, previewVars>>

\* img.onload of generateFilterThumbnail: resolve(canvas.toDataURL(...)).
GenerateFilterThumbnailLoads ==
    /\ Pending({"generateFilterThumbnail"})
    /\ LET found == Lookup(call.filterId)
       IN  /\ filter' = found
           /\ filteredData' = IF found # << >> THEN Apply(found[1], originalData)
                              ELSE originalData
           /\ imageData' = IF found # << >> THEN Apply(found[1], originalData)
                           ELSE originalData
    /\ outcome' = "resolved"
    /\ UNCHANGED <<call, originalData, engineVars, selectorVars, previewVars>>

\* (mutant) the statements of a filter function taken from the last to the first.
NextStatementReversed(steps, n) == steps[Len(steps) - n]

\* The statement a filter function executes after its first n statements.
NextStatement(steps, n) == steps[n + 1]

\* One statement `pixels = filters.op(pixels, ...)` of the filter function
\* preset.apply: the operator mutates the buffer it is handed and returns it.
FilterStatement ==
    /\ Pending({"filterFunction"})
    /\ LET steps == FilterFunction(filter[1].apply)
       IN  /\ pc < Len(steps)
           /\ filteredData' = imageData
           /\ imageData' = ApplyStep(imageData, NextStatement(steps, pc))
           /\ pc' = pc + 1
    /\ UNCHANGED <<call, outcome, filter, originalData, hsv, rgb, selectorVars, previewVars>>

\* `return pixels` of the filter function.
FilterFunctionReturns ==
    /\ Pending({"filterFunction"})
    /\ pc = Len(FilterFunction(filter[1].apply))
    /\ outcome' = "returned"
    /\ UNCHANGED <<call, filter, originalData, filteredData, imageData, engineVars,
                   selectorVars, previewVars>>

\* A caller of filters.ts calls one more operator on its buffer; call.steps
\* lists the calls made so far.  No operator throws.
OperatorReturns(step) ==
    /\ Pending({"operators"})
    /\ Len(call.steps) < MaxOps
    /\ call' = [call EXCEPT !.steps = Append(@, step)]
    /\ filteredData' = imageData
    /\ imageData' = ApplyStep(imageData, step)
    /\ UNCHANGED <<outcome, filter, originalData, engineVars, selectorVars, previewVars>>

\* contrast(pixels, adj) called on its own.
ContrastReturns ==
    /\ Pending({"contrast"})
    /\ outcome' = "returned"
    /\ filteredData' = imageData
    /\ imageData' = PerPixel(imageData, Step("contrast", <<call.adj>>))
    /\ UNCHANGED <<call, filter, originalData, engineVars, selectorVars, previewVars>>

\* sharpen(pixels, amount) called on its own.
SharpenReturns ==
    /\ Pending({"sharpen"})
    /\ outcome' = "returned"
    /\ filteredData' = imageData
    /\ imageData' = sharpen(imageData, call.amount)
    /\ UNCHANGED <<call, filter, originalData, engineVars, selectorVars, previewVars>>

\* const hsv = RGBtoHSV(r, g, b)
RGBtoHSVReturns ==
    /\ Pending({"RGBtoHSV"})
    /\ pc = 0
    /\ hsv' = RGBtoHSV(call.args[1], call.args[2], call.args[3])
    /\ pc' = 1
    /\ UNCHANGED <<call, outcome, filter, originalData, filteredData, imageData, rgb,
                   selectorVars, previewVars>>

\* const rgb = HSVtoRGB(hsv[0], hsv[1], hsv[2])
HSVtoRGBReturns ==
    /\ Pending({"RGBtoHSV"})
    /\ pc = 1
    /\ rgb' = HSVtoRGB(hsv[1], hsv[2], hsv[3])
    /\ pc' = 2
    /\ outcome' = "returned"
    /\ UNCHANGED <<call, filter, originalData, filteredData, imageData, hsv,
                   selectorVars, previewVars>>

InitFilter ==
    /\ InitSelector
    /\ InitPreview
    /\ call \in Calls
    /\ outcome = "none"
    /\ filter = IF call.fn = "filterFunction" THEN getFilterById(call.filterId) ELSE << >>
    /\ originalData \in (IF call.fn \in {"getFilterById", "RGBtoHSV"} THEN {NoBuffer}
                         ELSE IF call.fn = "sharpen" THEN UniformBuffers
                         ELSE Buffers)
    /\ filteredData = originalData
    /\ imageData = originalData
    /\ pc = 0
    /\ hsv = << >>
    /\ rgb = << >>

NextFilter ==
    \/ GetFilterByIdReturns
    \/ ImageFailsToLoad
    \/ NoCanvasContext
    \/ \E blob \in BOOLEAN : ApplyFilterToImageLoads(blob)
    \/ GenerateFilterThumbnailLoads
    \/ FilterStatement
    \/ FilterFunctionReturns
    \/ \E step \in OperatorCalls : OperatorReturns(step)
    \/ ContrastReturns
    \/ SharpenReturns
    \/ RGBtoHSVReturns
    \/ HSVtoRGBReturns

SpecFilter == InitFilter /\ [][NextFilter]_vars

(***************************************************************************)
(* ImagePreview: the effect that applies the selected filter to the        *)
(* original image and shows the blob URL applyFilterToImage resolves with. *)
(***************************************************************************)

\* The largest number of runs of the effect within one mount.
MaxEffects == 3

\* The values of the selectedStyle.id and strength props (strength in
\* hundredths); originalImage is one of Images.
PreviewStyles == {"normal", "clarendon"}
PreviewStrengths == {50, 100}
PreviewProps ==
    [originalImage : Images, selectedStyle : PreviewStyles, strength : PreviewStrengths]

\* originalImage is a data URL (FileReader.readAsDataURL); the URL the r-th
\* run's applyFilterToImage resolves with is a fresh blob URL.
OriginalUrl(img) == <<"data:", img>>
BlobUrl(r) == <<"blob:", r>>

\* revokeImageUrl(url): if (url.startsWith('blob:')) URL.revokeObjectURL(url)
RevokeImageUrl(url, revoked) ==
    IF url # << >> /\ url[1] = "blob:" THEN revoked \cup {url} ELSE revoked

\* (mutant) the result is shown whether or not the run was cancelled.
ShowsResultAlways(isCancelled) == TRUE

\* if (!isCancelled) around the statements that show the result.
ShowsResult(isCancelled) == ~isCancelled

\* (mutant) no else branch: the result of a cancelled run is not revoked.
ResultLeaksWhenCancelled(isCancelled, previous, processed, revoked) ==
    IF ShowsResult(isCancelled) THEN RevokeImageUrl(previous, revoked) ELSE revoked

\* What the continuation of the await revokes: the URL shown before when the
\* result is shown (previousProcessedUrl.current, if it is a blob URL), the
\* result itself when the run was cancelled.
ResultRevokes(isCancelled, previous, processed, revoked) ==
    IF ShowsResult(isCancelled)
    THEN RevokeImageUrl(previous, revoked)
    ELSE RevokeImageUrl(processed, revoked)

\* The closure of one run of the effect for the props p: isCancelled = false,
\* and processImage() up to its return (style 'normal') or its await.
Effect(p) ==
    [isCancelled |-> FALSE,
     call |-> IF p.selectedStyle = "normal" THEN "none" ELSE "pending"]

\* return () => { isCancelled = true } of the latest run of the effect.
CleanupEffect(es) ==
    IF es = << >> THEN es ELSE [es EXCEPT ![Len(es)].isCancelled = TRUE]

\* The component is mounted with the props p: the initial state, then the
\* first run of the effect.
Mount(p) ==
    /\ mounted = "no"
    /\ mounted' = "yes"
    /\ props' = p
    /\ processedImage' = OriginalUrl(p.originalImage)
    /\ isProcessing' = (p.selectedStyle # "normal")
    /\ previousProcessedUrl' = << >>
    /\ effects' = <<Effect(p)>>
    /\ UNCHANGED <<revokedUrls, selectorVars, filterVars>>

\* A prop changes: React runs the cleanup of the previous run of the effect
\* and then the effect for the new props.  For 'normal' processImage() sets
\* processedImage to originalImage and returns; otherwise it sets isProcessing
\* and calls applyFilterToImage.
PropsChange(p) ==
    /\ mounted = "yes"
    /\ p # props
    /\ Len(effects) < MaxEffects
    /\ props' = p
    /\ effects' = Append(CleanupEffect(effects), Effect(p))
    /\ IF p.selectedStyle = "normal"
       THEN /\ processedImage' = OriginalUrl(p.originalImage)
            /\ UNCHANGED isProcessing
       ELSE /\ isProcessing' = TRUE
            /\ UNCHANGED processedImage
    /\ UNCHANGED <<mounted, previousProcessedUrl, revokedUrls, selectorVars, filterVars>>

\* applyFilterToImage of the r-th run settles: the continuation of the await
\* (try), the catch for a rejection, and the finally block.
ApplyFilterSettles(r, status) ==
    /\ r \in DOMAIN effects
    /\ effects[r].call = "pending"
    /\ effects' = [effects EXCEPT ![r].call = status]
    /\ IF status = "resolved"
       THEN /\ revokedUrls' = ResultRevokes(effects[r].isCancelled, previousProcessedUrl,
                                            BlobUrl(r), revokedUrls)
            /\ IF ShowsResult(effects[r].isCancelled)
               THEN /\ previousProcessedUrl' = BlobUrl(r)
                    /\ processedImage' = BlobUrl(r)
               ELSE UNCHANGED <<previousProcessedUrl, processedImage>>
       ELSE UNCHANGED <<revokedUrls, previousProcessedUrl, processedImage>>
    /\ isProcessing' = IF effects[r].isCancelled THEN isProcessing ELSE FALSE
    /\ UNCHANGED <<mounted, props, selectorVars, filterVars>>

\* The component is unmounted: the cleanup of the latest run of the effect and
\* the cleanup of the mount effect, which revokes previousProcessedUrl.current.
Unmount ==
    /\ mounted = "yes"
    /\ mounted' = "gone"
    /\ effects' = CleanupEffect(effects)
    /\ revokedUrls' = RevokeImageUrl(previousProcessedUrl, revokedUrls)
    /\ UNCHANGED <<props, processedImage, isProcessing, previousProcessedUrl,
                   selectorVars, filterVars>>

NextPreview ==
    \/ \E p \in PreviewProps : Mount(p)
    \/ \E p \in PreviewProps : PropsChange(p)
    \/ \E r \in 1..MaxEffects, status \in {"resolved", "rejected"} :
           ApplyFilterSettles(r, status)
    \/ Unmount

SpecPreview == Init /\ [][NextPreview]_vars

\* SpecPreview with the scheduling the claims on eventual outcomes assume:
\* every applyFilterToImage call settles, and the component is unmounted in
\* the end.
SpecPreviewFair ==
    /\ SpecPreview
    /\ \A r \in 1..MaxEffects :
           WF_vars(\E status \in {"resolved", "rejected"} : ApplyFilterSettles(r, status))
    /\ WF_vars(Unmount)

(***************************************************************************)
(* Claims about the StyleSelector thumbnail runs (checked under Spec).     *)
(***************************************************************************)
Settled(st) == st \in {"resolved", "rejected"}
BatchIndex(k) == (k - 1) \div batchSize
PendingOf(r) == {k \in StyleIdx : runs[r].calls[k] = "pending"}
InFlight == {<<r, k>> \in Images \X StyleIdx : runs[r].calls[k] = "pending"}

\* C1: within one run, a call that has been started never belongs to a later
\* batch of 6 consecutive styles than a call that has not settled yet: the calls
\* in flight are at most 6 styles of one batch, and no call of batch k+1 is
\* started while a call of batch k is unsettled.
C1_BatchesAwaitedInOrder ==
    \A r \in Images :
        LET calls == runs[r].calls
        IN  \A j \in {x \in StyleIdx : ~Settled(calls[x])} :
                \A k \in {x \in StyleIdx : calls[x] # "none"} :
                    BatchIndex(k) <= BatchIndex(j)

\* C1 witness: the second batch of a run is in flight after a first batch in
\* which a call was rejected.
C1_Witness ==
    \E r \in Images :
        /\ runs[r].i = batchSize
        /\ \E k \in StyleIdx : runs[r].calls[k] = "pending"
        /\ \E j \in StyleIdx : runs[r].calls[j] = "rejected"

\* C2 (as claimed): at every moment, over all runs, at most batchSize (6)
\* generateFilterThumbnail calls have been started and have not settled.
C2_InFlightAtMostBatchSize == Cardinality(InFlight) <= batchSize

\* C3: once a run is cancelled, no thumbnail of that run's image is newly
\* written into the thumbnails state, and the run starts no further call.
C3_CancelledRunWritesNothing ==
    [][\A r \in Images :
          runs[r].isCancelled =>
              /\ \A id \in DOMAIN thumbnails' :
                     thumbnails'[id] = DataUrl(r, id)
                         => (id \in DOMAIN thumbnails /\ thumbnails[id] = DataUrl(r, id))
              /\ \A k \in StyleIdx :
                     runs'[r].calls[k] = "pending" => runs[r].calls[k] = "pending"]_vars

\* C3 witness: a cancelled run has finished with results of its own that are
\* not in the thumbnails state.
C3_Witness ==
    \E r \in Images :
        /\ runs[r].isCancelled
        /\ runs[r].phase = "done"
        /\ \E id \in DOMAIN runs[r].newThumbnails :
               id \notin DOMAIN thumbnails \/ thumbnails[id] # DataUrl(r, id)
        /\ \E k \in StyleIdx : runs[r].calls[k] = "none"

\* C4: when an uncancelled run is over, every style of imageStyles has been
\* attempted, and every style whose generation resolved has this run's thumbnail
\* in the thumbnails state, whichever other styles were rejected.
C4_FailureDoesNotAbortRun ==
    \A r \in Images :
        (runs[r].phase = "done" /\ ~runs[r].isCancelled) =>
            \A k \in StyleIdx :
                /\ Settled(runs[r].calls[k])
                /\ runs[r].calls[k] = "resolved" =>
                       /\ imageStyles[k] \in DOMAIN thumbnails
                       /\ thumbnails[imageStyles[k]] = DataUrl(r, imageStyles[k])

\* C4 witness: an uncancelled run is over, a call of its first batch was
\* rejected, and calls of the same batch and of the next batch resolved.
C4_Witness ==
    \E r \in Images :
        /\ runs[r].phase = "done" /\ ~runs[r].isCancelled
        /\ \E j, k, m \in StyleIdx :
               /\ BatchIndex(j) = 0 /\ runs[r].calls[j] = "rejected"
               /\ BatchIndex(k) = 0 /\ runs[r].calls[k] = "resolved"
               /\ BatchIndex(m) = 1 /\ runs[r].calls[m] = "resolved"

\* C5 (as claimed): when an uncancelled run is over, every style whose
\* generation was rejected is mapped to the placeholder in the thumbnails state.
C5_FailedStyleHasPlaceholder ==
    \A r \in Images :
        (runs[r].phase = "done" /\ ~runs[r].isCancelled) =>
            \A k \in StyleIdx :
                runs[r].calls[k] = "rejected" =>
                    /\ imageStyles[k] \in DOMAIN thumbnails
                    /\ thumbnails[imageStyles[k]] = Placeholder

\* C5, the stale case: after an uncancelled run, no rejected style still shows
\* the thumbnail of an earlier image.
C5_FailedStyleNotStale ==
    \A r \in Images :
        (runs[r].phase = "done" /\ ~runs[r].isCancelled) =>
            \A k \in StyleIdx :
                runs[r].calls[k] = "rejected" =>
                    ~(/\ imageStyles[k] \in DOMAIN thumbnails
                      /\ \E q \in Images :
                             q # r /\ thumbnails[imageStyles[k]] = DataUrl(q, imageStyles[k]))

(***************************************************************************)
(* Claims about the catalog lookup and applyFilterToImage (checked under   *)
(* SpecFilter).                                                            *)
(***************************************************************************)
Presets == {filterPresets[k] : k \in 1..Len(filterPresets)}
PresetOf(id) == CHOOSE p \in Presets : p.id = id
LookedUp ==
    \/ call.fn = "getFilterById" /\ outcome = "returned"
    \/ /\ call.fn \in {"applyFilterToImage", "generateFilterThumbnail"}
       /\ outcome = "resolved"
       /\ call.filterId # "normal"
Abs(x) == IF x < 0 THEN -x ELSE x
Min2(x, y) == IF x < y THEN x ELSE y
Max2(x, y) == IF x < y THEN y ELSE x

\* C6: a lookup by id returns the catalog preset with that id when the catalog
\* has one, and the not-found value for every other id; never another preset.
C6_LookupFindsOrUndefined ==
    LookedUp =>
        IF call.filterId \in CatalogIds
        THEN /\ Len(filter) = 1
             /\ filter[1] \in Presets
             /\ filter[1].id = call.filterId
        ELSE filter = << >>

\* C6 witness: getFilterById has returned the not-found value for an id that is
\* not in the catalog.
C6_Witness ==
    /\ call.fn = "getFilterById"
    /\ outcome = "returned"
    /\ call.filterId \notin CatalogIds
    /\ filter = << >>

\* C7 (as claimed): a call of applyFilterToImage or generateFilterThumbnail
\* with a filter id that is not in the catalog settles only by rejecting.
C7_UnknownFilterIdRejects ==
    (/\ call.fn \in {"applyFilterToImage", "generateFilterThumbnail"}
     /\ call.filterId \notin CatalogIds
     /\ outcome # "none")
        => outcome = "rejected"

\* C8 (as claimed): a call of applyFilterToImage with a strength below 0 or
\* above 1 settles only by rejecting.
C8_StrengthOutOfRangeRejects ==
    (/\ call.fn = "applyFilterToImage"
     /\ (call.strength < 0 \/ call.strength > 100)
     /\ outcome # "none")
        => outcome = "rejected"

\* C9: for a catalog filter, the pixels applyFilterToImage produces with
\* strength 0 equal the original pixels in every channel, and those it produces
\* with strength 1 equal the fully filtered pixels in every channel.
C9_BlendExactAtEndpoints ==
    (/\ call.fn = "applyFilterToImage"
     /\ outcome = "resolved"
     /\ call.filterId \in CatalogIds)
        => /\ call.strength = 0 => imageData = originalData
           /\ call.strength = 100 =>
                  imageData = Apply(PresetOf(call.filterId), originalData)

\* C9 witness: a call with strength 0 has resolved for a filter that changes
\* the buffer.
C9_Witness ==
    /\ call.fn = "applyFilterToImage"
    /\ outcome = "resolved"
    /\ call.filterId \in CatalogIds
    /\ call.strength = 0
    /\ filteredData # originalData
    /\ originalData.width > 1

\* C10: for 0 < strength < 1 every R, G, B channel of the output is within 1/2
\* of original*(1-strength) + filtered*strength, lies in [0,255] and between
\* the original and the filtered value, and every alpha equals the original's.
C10_BlendRoundsToNearest ==
    (/\ call.fn = "applyFilterToImage"
     /\ outcome = "resolved"
     /\ call.filterId \in CatalogIds
     /\ 0 < call.strength /\ call.strength < 100)
        => \A i \in DOMAIN imageData.data :
               LET o == originalData.data[i]
                   f == filteredData.data[i]
                   v == imageData.data[i]
               IN  IF i % 4 = 3 THEN v = o
                   ELSE /\ Abs(100 * v - (o * (100 - call.strength) + f * call.strength)) <= 50
                        /\ 0 <= v /\ v <= 255
                        /\ Min2(o, f) <= v /\ v <= Max2(o, f)

\* C10 witness: a call with 0 < strength < 1 has resolved and in some channel
\* the exact blend is not an integer, so the stored value was rounded.
C10_Witness ==
    /\ call.fn = "applyFilterToImage"
    /\ outcome = "resolved"
    /\ call.filterId \in CatalogIds
    /\ 0 < call.strength /\ call.strength < 100
    /\ \E i \in DOMAIN imageData.data :
           /\ i % 4 # 3
           /\ (originalData.data[i] * (100 - call.strength)
                  + filteredData.data[i] * call.strength) % 100 # 0

(***************************************************************************)
(* Claims about the filter functions, the operators of filters.ts and      *)
(* colorUtils (checked under SpecFilter).                                  *)
(***************************************************************************)
\* op_n(...(op_1(buffer))) for steps = <<op_1, ..., op_n>>.
RECURSIVE Composition(_, _)
Composition(buffer, steps) ==
    IF steps = << >> THEN buffer
    ELSE Composition(ApplyStep(buffer, Head(steps)), Tail(steps))

\* The operator calls the filter function of the preset with this id declares.
Declared(id) == FilterFunction(PresetOf(id).apply)

\* A caller of filters.ts has made at least one operator call; the last one.
OperatorCalled == call.fn = "operators" /\ Len(call.steps) > 0
LastStep == call.steps[Len(call.steps)]

\* The pixel at position p of a buffer, as <<r, g, b, a>>.
PixelAt(pixels, p) == [c \in 1..4 |-> pixels.data[4 * p + c - 1]]
PixelsOf(pixels) == 0..(pixels.width * pixels.height - 1)

\* C11: while a catalog filter function runs, the buffer is the result of its
\* first pc declared operators applied in order to the original buffer, the
\* last statement received exactly the buffer the statement before it produced,
\* and the function returns only after all its statements; the buffer a
\* thumbnail call puts back is opN(...(op1(buffer))).
C11_OperatorsRunInDeclaredOrder ==
    /\ call.fn = "filterFunction" =>
           LET steps == Declared(call.filterId)
           IN  /\ pc <= Len(steps)
               /\ imageData = Composition(originalData, SubSeq(steps, 1, pc))
               /\ pc > 0 =>
                      /\ filteredData = Composition(originalData, SubSeq(steps, 1, pc - 1))
                      /\ imageData = ApplyStep(filteredData, steps[pc])
               /\ outcome = "returned" => pc = Len(steps)
    /\ (/\ call.fn = "generateFilterThumbnail"
        /\ outcome = "resolved"
        /\ call.filterId \in CatalogIds)
           => imageData = Composition(originalData, Declared(call.filterId))

\* C11 witness: googleStyle has returned after its five statements on a buffer
\* of more than one pixel, which it changed.
C11_Witness ==
    /\ call.fn = "filterFunction"
    /\ call.filterId = "google-style"
    /\ outcome = "returned"
    /\ pc = Len(googleStyle)
    /\ originalData.width > 1
    /\ imageData # originalData

\* C12: the 'normal' filter function returns the buffer it was given, and
\* applyFilterToImage with filterId 'normal' puts back the original pixels
\* whatever the strength.
C12_NormalLeavesBufferUnchanged ==
    /\ (call.fn = "filterFunction" /\ call.filterId = "normal" /\ outcome = "returned")
           => imageData = originalData
    /\ (call.fn = "applyFilterToImage" /\ call.filterId = "normal" /\ outcome = "resolved")
           => imageData = originalData

\* C12 witness: applyFilterToImage with 'normal' and a strength inside (0,1)
\* has resolved on a buffer of several pixels.
C12_Witness ==
    /\ call.fn = "applyFilterToImage"
    /\ call.filterId = "normal"
    /\ outcome = "resolved"
    /\ 0 < call.strength /\ call.strength < 100
    /\ originalData.width > 1

\* The operator calls whose adjustment is 0.
NeutralCall(step) ==
    \/ step.op \in {"brightness", "contrast", "saturation", "sepia"} /\ step.args[1] = 0
    \/ step.op = "colorFilter" /\ step.args[4] = 0

\* C13: brightness, contrast, saturation and sepia called with 0, and
\* colorFilter called with adj 0 for any target colour, return the buffer they
\* received unchanged in every channel.
C13_ZeroAdjustmentIsIdentity ==
    (OperatorCalled /\ NeutralCall(LastStep)) => imageData = filteredData

\* C13 witness: saturation(pixels, 0) returned on a buffer that an earlier
\* operator call produced and that holds a pixel that is not gray.
C13_Witness ==
    /\ OperatorCalled
    /\ Len(call.steps) > 1
    /\ LastStep = Step("saturation", <<0>>)
    /\ \E p \in PixelsOf(filteredData) :
           PixelAt(filteredData, p)[1] # PixelAt(filteredData, p)[2]

\* C14: two successive calls of invert give back the buffer the first of them
\* received, in every channel, alpha included.
C14_InvertIsInvolution ==
    (/\ call.fn = "operators"
     /\ Len(call.steps) >= 2
     /\ LastStep.op = "invert"
     /\ call.steps[Len(call.steps) - 1].op = "invert")
        => imageData = Composition(originalData, SubSeq(call.steps, 1, Len(call.steps) - 2))

\* C14 witness: invert has been called twice on a buffer with a black pixel and
\* a pixel whose alpha is neither 0 nor 255.
C14_Witness ==
    /\ call.fn = "operators"
    /\ call.steps = << Step("invert", << >>), Step("invert", << >>) >>
    /\ \E p \in PixelsOf(originalData) : PixelAt(originalData, p) = <<0, 0, 0, 255>>
    /\ \E p \in PixelsOf(originalData) : PixelAt(originalData, p)[4] = 128
    /\ filteredData # originalData

\* C15: after any operator call, any sequence of them, any filter function and
\* any call of the wrappers, every channel of every pixel of the buffer is an
\* integer in [0,255].
C15_ChannelsStayInRange ==
    /\ \A i \in DOMAIN imageData.data : imageData.data[i] \in 0..255
    /\ \A i \in DOMAIN filteredData.data : filteredData.data[i] \in 0..255

\* C15 witness: sepia(pixels, 1) was called after another operator on a buffer
\* with a white pixel, whose exact red value 255 * 1.351 is above 255.
C15_Witness ==
    /\ OperatorCalled
    /\ Len(call.steps) > 1
    /\ LastStep = Step("sepia", <<100>>)
    /\ \E p \in PixelsOf(filteredData) :
           /\ PixelAt(filteredData, p) = <<255, 255, 255, 255>>
           /\ PixelAt(imageData, p)[1] = 255

\* C16: whatever has been called on the buffer (per-pixel operators, vignette,
\* noise, convolute, sharpen, a filter function, the strength blend), the alpha
\* of every pixel equals its alpha in the original buffer.
C16_AlphaUnchanged ==
    /\ DOMAIN imageData.data = DOMAIN originalData.data
    /\ \A i \in DOMAIN imageData.data :
           i % 4 = 3 => /\ imageData.data[i] = originalData.data[i]
                        /\ filteredData.data[i] = originalData.data[i]

\* C16 witness: convolute with a kernel of four weights has changed a buffer that holds a
\* pixel whose alpha is neither 0 nor 255.
C16_Witness ==
    /\ OperatorCalled
    /\ LastStep.op = "convolute"
    /\ imageData # filteredData
    /\ \E p \in PixelsOf(originalData) : PixelAt(originalData, p)[4] = 128

\* C17: convolute with the identity kernel returns the buffer it received
\* unchanged in R, G, B and alpha of every pixel, edges and corners included.
C17_IdentityKernelIsIdentity ==
    (OperatorCalled /\ LastStep = Step("convolute", IdentityKernel))
        => imageData = filteredData

\* C17 witness: the identity kernel was applied to a buffer of at least 2 x 2
\* pixels that are not all equal.
C17_Witness ==
    /\ OperatorCalled
    /\ LastStep = Step("convolute", IdentityKernel)
    /\ filteredData.width > 1 /\ filteredData.height > 1
    /\ PixelAt(filteredData, 0) # PixelAt(filteredData, 1)

\* A white opaque pixel the last call, sepia(pixels, 1), received.
WhiteBeforeSepia(p) ==
    /\ OperatorCalled
    /\ LastStep = Step("sepia", <<100>>)
    /\ p \in PixelsOf(filteredData)
    /\ PixelAt(filteredData, p) = <<255, 255, 255, 255>>

\* C18 (as claimed): sepia with adj = 1 turns a white opaque pixel
\* (255,255,255,255) into (255,255,255) with alpha 255.
C18_SepiaOfWhiteIsWhite ==
    \A p \in PixelsOf(filteredData) :
        WhiteBeforeSepia(p) => PixelAt(imageData, p) = <<255, 255, 255, 255>>

\* C18 (amended): sepia with adj = 1 turns a white opaque pixel into
\* (255,255,239) with alpha 255: red and green are clamped at 255, blue is
\* 255 * (0.272 + 0.534 + 0.131) = 238.9 rounded.
C18_SepiaOfWhite ==
    \A p \in PixelsOf(filteredData) :
        WhiteBeforeSepia(p) => PixelAt(imageData, p) = <<255, 255, 239, 255>>

\* C18 witness: sepia(pixels, 1) has returned on a buffer with a white opaque pixel.
C18_Witness == \E p \in PixelsOf(filteredData) : WhiteBeforeSepia(p)

\* C19: HSVtoRGB of RGBtoHSV(r, g, b), rounded to integers, is within 1 of
\* (r, g, b) in each channel.
C19_HsvRoundTrip ==
    (call.fn = "RGBtoHSV" /\ pc = 2) =>
        \A k \in 1..3 : Abs(MathRound(rgb[k][1], rgb[k][2]) - call.args[k]) <= 1

\* C19 witness: the round trip of a colour whose maximum is red and whose green
\* is below its blue (the hue branch that adds 6) is over.
C19_Witness ==
    /\ call.fn = "RGBtoHSV"
    /\ pc = 2
    /\ call.args = <<254, 1, 127>>
    /\ hsv[1] # <<0, 1>>

\* The number of weights is the square of an odd integer.
OddSquare(n) == \E k \in 1..n : k % 2 = 1 /\ k * k = n

\* C20 (as claimed): convolute called with a kernel whose number of weights is
\* not the square of an odd integer fails with an error and leaves the buffer
\* as it was.
C20_BadKernelFailsFast ==
    (OperatorCalled /\ LastStep.op = "convolute" /\ ~OddSquare(Len(LastStep.args)))
        => outcome = "threw" /\ imageData = filteredData

\* C21: for every adj in [-1, 1] the denominator of the contrast factor is
\* strictly positive and its numerator is not negative, so the factor is a
\* finite number: contrast leaves a channel of 128 at 128 (a factor that is not
\* finite would store 0 there).
C21_ContrastFactorIsFinite ==
    call.fn = "contrast" =>
        /\ ContrastDenominator(call.adj) > 0
        /\ ContrastNumerator(call.adj) >= 0
        /\ outcome = "returned" =>
               \A i \in DOMAIN filteredData.data :
                   filteredData.data[i] = 128 => imageData.data[i] = 128

\* C21 witness: contrast has returned for adj = 1, the adjustment with the
\* smallest denominator, on a buffer with a channel of 128.
C21_Witness ==
    /\ call.fn = "contrast"
    /\ call.adj = 100
    /\ outcome = "returned"
    /\ \E i \in DOMAIN filteredData.data : i % 4 = 0 /\ filteredData.data[i] = 128

\* The kernel of the convolution that ran last, when its number of weights is
\* the square of an odd integer: the weights a caller of convolute passed, or
\* the kernel of the sharpen statement a filter function has just executed.
\* << >> when no such convolution ran last.
LastKernel ==
    IF OperatorCalled /\ LastStep.op = "convolute" /\ OddSquare(Len(LastStep.args))
    THEN LastStep.args
    ELSE IF call.fn = "filterFunction" /\ pc > 0
            /\ Declared(call.filterId)[pc].op = "sharpen"
    THEN LET a == Declared(call.filterId)[pc].args[1]
         IN  <<0, -a, 0, -a, 100 + 4 * a, -a, 0, -a, 0>>
    ELSE << >>

\* The channel c of the pixel (x, y) of a buffer, 0 outside the image.
SourceValue(pixels, x, y, c) ==
    IF x >= 0 /\ x < pixels.width /\ y >= 0 /\ y < pixels.height
    THEN pixels.data[(y * pixels.width + x) * 4 + c]
    ELSE 0

\* The weighted sum over the kernel window centred at (x, y): its first k terms.
RECURSIVE WindowSum(_, _, _, _, _, _)
WindowSum(pixels, weights, x, y, c, k) ==
    IF k = 0 THEN 0
    ELSE LET side == RoundSqrt(Len(weights))
             h    == (side - 1) \div 2
         IN  WindowSum(pixels, weights, x, y, c, k - 1)
             + weights[k] * SourceValue(pixels, x + ((k - 1) % side) - h,
                                        y + ((k - 1) \div side) - h, c)

\* C22: after a convolution with an odd-sided kernel every R, G and B value of
\* the output is the clamped weighted sum, over the kernel window, of the
\* pixels the buffer held before the call (positions outside the image count
\* as zero): no output value depends on a value written during the call.
C22_ConvoluteReadsOriginalPixels ==
    LastKernel # << >> =>
        \A p \in PixelsOf(filteredData) : \A c \in 0..2 :
            imageData.data[4 * p + c]
                = Uint8Clamped(WindowSum(filteredData, LastKernel,
                                         p % filteredData.width,
                                         p \div filteredData.width, c,
                                         Len(LastKernel)), 100)

\* C22 witness: a sharpen statement has changed the second pixel of a buffer
\* whose first pixel, its neighbour in the window, it has changed too.
C22_Witness ==
    /\ LastKernel # << >>
    /\ LastKernel # IdentityKernel
    /\ filteredData.width > 1
    /\ PixelAt(imageData, 0) # PixelAt(filteredData, 0)
    /\ PixelAt(imageData, 1) # PixelAt(filteredData, 1)

\* sharpen called on its own has returned.
Sharpened == call.fn = "sharpen" /\ outcome = "returned"

\* How many of the four neighbours of pixel p lie outside the image.
MissingNeighbours(pixels, p) ==
    LET x == p % pixels.width
        y == p \div pixels.width
        One(b) == IF b THEN 1 ELSE 0
    IN  One(x = 0) + One(x = pixels.width - 1)
        + One(y = 0) + One(y = pixels.height - 1)

\* C23 (as claimed): sharpen(amount) with amount > 0 on a buffer of one colour
\* leaves no R, G or B value of an edge or corner pixel greater than it was,
\* and leaves the interior pixels unchanged.
C23_SharpenDarkensEdges ==
    Sharpened =>
        \A p \in PixelsOf(filteredData) : \A c \in 0..2 :
            IF MissingNeighbours(filteredData, p) = 0
            THEN imageData.data[4 * p + c] = filteredData.data[4 * p + c]
            ELSE imageData.data[4 * p + c] <= filteredData.data[4 * p + c]

\* C23 (amended): sharpen(amount) with amount > 0 on a buffer of one colour
\* leaves no R, G or B value of an edge or corner pixel less than it was: a
\* value v of a pixel with k of its four neighbours outside the image becomes
\* v * (1 + k * amount), rounded and clamped at 255; the interior pixels are
\* unchanged.
C23_SharpenBrightensEdges ==
    Sharpened =>
        \A p \in PixelsOf(filteredData) : \A c \in 0..2 :
            LET v == filteredData.data[4 * p + c]
                k == MissingNeighbours(filteredData, p)
            IN  /\ imageData.data[4 * p + c] >= v
                /\ imageData.data[4 * p + c]
                       = Uint8Clamped(v * (100 + k * call.amount), 100)

\* C23 witness: sharpen has returned on a 3 x 3 buffer of the colour
\* (200, 100, 50): its corner got brighter, its centre pixel stayed as it was.
C23_Witness ==
    /\ Sharpened
    /\ filteredData.width = 3 /\ filteredData.height = 3
    /\ PixelAt(filteredData, 0) = <<200, 100, 50, 128>>
    /\ imageData.data[2] > 50
    /\ PixelAt(imageData, 4) = <<200, 100, 50, 128>>

\* C24: noise(amount) adds to the R, G and B values of each pixel one and the
\* same delta = (U - 0.5) * amount, U in [0, 1), before the clamping store: for
\* every pixel there is a single draw U, with |delta| <= amount / 2, that
\* explains its three output values.  (That the draw is made anew for every
\* pixel shows in the witness.)
C24_NoiseAddsOneDeltaPerPixel ==
    (OperatorCalled /\ LastStep.op = "noise") =>
        \A p \in PixelsOf(filteredData) :
            \E u \in 0..99 :
                LET delta == (u - 50) * LastStep.args[1]
                IN  /\ 2 * Abs(delta) <= 100 * LastStep.args[1]
                    /\ \A c \in 0..2 :
                           imageData.data[4 * p + c]
                               = Uint8Clamped(100 * filteredData.data[4 * p + c] + delta, 100)

\* C24 witness: noise has raised the three channels of one pixel of a buffer
\* and lowered the three channels of another: the two pixels got different
\* deltas.
C24_Witness ==
    /\ OperatorCalled
    /\ LastStep.op = "noise"
    /\ \E p, q \in PixelsOf(filteredData) :
           /\ \A c \in 0..2 : imageData.data[4 * p + c] > filteredData.data[4 * p + c]
           /\ \A c \in 0..2 : imageData.data[4 * q + c] < filteredData.data[4 * q + c]

(***************************************************************************)
(* Claims about the thumbnail runs of StyleSelector under image changes    *)
(* (checked under Spec and SpecFair).                                      *)
(***************************************************************************)

\* C25: when every generateFilterThumbnail call that is started settles, a run
\* that is awaiting a batch and has not been cancelled is eventually cancelled
\* or over with isGeneratingThumbnails set to false, even when calls reject.
C25_UncancelledRunFinishes ==
    \A r \in Images :
        (runs[r].phase = "await" /\ ~runs[r].isCancelled)
            ~> (runs[r].isCancelled
                \/ (runs[r].phase = "done" /\ ~isGeneratingThumbnails))

\* C25 witness: an uncancelled run is over and the flag is false after a call
\* was rejected in each of its batches.
C25_Witness ==
    \E r \in Images :
        /\ runs[r].phase = "done" /\ ~runs[r].isCancelled
        /\ ~isGeneratingThumbnails
        /\ \A k \in FragileStyles : runs[r].calls[k] = "rejected"

\* C26 (as claimed): while an image is shown, every entry of the thumbnails
\* state was generated from that image.
C26_ThumbnailsAreOfCurrentImage ==
    previewImage # 0 =>
        \A id \in DOMAIN thumbnails : thumbnails[id] = DataUrl(previewImage, id)

\* C27 (as claimed): isGeneratingThumbnails is true as long as the run for
\* the current preview image is not over.
C27_GeneratingUntilCurrentRunIsOver ==
    (previewImage # 0 /\ runs[previewImage].phase = "await")
        => isGeneratingThumbnails

(***************************************************************************)
(* Claims about ImagePreview (checked under SpecPreview and                *)
(* SpecPreviewFair).                                                       *)
(***************************************************************************)

\* C28: whenever processedImage becomes the URL an applyFilterToImage call
\* resolved with, that call belongs to the latest run of the effect, the run
\* for the current originalImage, selectedStyle and strength, and that run is
\* not cancelled: the result for a superseded combination is never shown.
C28_SupersededResultNeverShown ==
    [][\A r \in 1..MaxEffects :
          (processedImage' = BlobUrl(r) /\ processedImage # BlobUrl(r)) =>
              /\ r = Len(effects')
              /\ ~effects[r].isCancelled
              /\ props' = props]_vars

\* C28 witness: the call of the first run resolved after the props had changed
\* and its URL was revoked without having been shown; the result of the
\* second run is shown.
C28_Witness ==
    /\ Len(effects) >= 2
    /\ effects[1].call = "resolved" /\ effects[1].isCancelled
    /\ BlobUrl(1) \in revokedUrls
    /\ previousProcessedUrl = BlobUrl(2)
    /\ processedImage = BlobUrl(2)

\* C29 (as claimed): isProcessing does not stay true once no run is in
\* flight: while the component is mounted and no applyFilterToImage call is
\* pending (nothing is left that could change the flag), isProcessing is false.
C29_IdleMeansNotProcessing ==
    (mounted = "yes" /\ \A r \in DOMAIN effects : effects[r].call # "pending")
        => ~isProcessing

====
